---------------------------- MODULE Spec2Model ----------------------------
(***************************************************************************)
(* RodSimulator3000 (rod-simulator.py): a Simulation steps a HeatSource    *)
(* and a Rod from a wall-clock paced loop.                                 *)
(*                                                                         *)
(* Numbers.  Every quantity of the program is a Python float (an IEEE-754  *)
(* binary64 value) or an int that is converted to one by the first         *)
(* operation it meets.  The model keeps the arithmetic and scales the      *)
(* format down: a float is an integer count of units of 2^-FracBits with   *)
(* at most MantBits significant bits, and every operation returns the      *)
(* exact result rounded to the nearest such value, ties to even, as        *)
(* binary64 does with 53 significant bits.                                 *)
(***************************************************************************)
EXTENDS Integers, Sequences, FiniteSets

\* Significant bits of a float (binary64: 53).
MantBits == 9
\* A float is a multiple of 2^-FracBits (binary64: 2^-1074).
FracBits == 7

RECURSIVE Pow2(_)
Pow2(n) == IF n <= 0 THEN 1 ELSE 2 * Pow2(n - 1)

Abs(x) == IF x < 0 THEN -x ELSE x

Sign(x) == IF x < 0 THEN -1 ELSE 1

RECURSIVE BitLen(_)
BitLen(n) == IF n <= 0 THEN 0 ELSE 1 + BitLen(n \div 2)

RECURSIVE TrailingZeros(_)
TrailingZeros(n) == IF n = 0 \/ n % 2 = 1 THEN 0 ELSE 1 + TrailingZeros(n \div 2)

\* The spacing of the floats around a magnitude of q units.
Ulp(q) == IF q < Pow2(MantBits) THEN 1 ELSE Pow2(BitLen(q) - MantBits)

\* A value a float can hold.
Representable(n) == Abs(n) % Ulp(Abs(n)) = 0

\* num/den units (den > 0) rounded to the nearest float, ties to even.
RoundRat(num, den) ==
    LET a == Abs(num)
        u == Ulp(a \div den)
        m == a \div (den * u)
        r == a - m * den * u
        up == IF 2 * r > den * u \/ (2 * r = den * u /\ m % 2 = 1) THEN 1 ELSE 0
    IN  Sign(num) * (m + up) * u

\* An int operand, converted to float.
FromInt(i) == RoundRat(i * Pow2(FracBits), 1)

\* A decimal literal n/d of the source text, as the float it denotes.
Lit(n, d) == RoundRat(n * Pow2(FracBits), d)

\* x + y
FAdd(x, y) == RoundRat(x + y, 1)

\* x - y
FSub(x, y) == RoundRat(x - y, 1)

\* x * y
FMul(x, y) ==
    LET ex == TrailingZeros(Abs(x))
        ey == TrailingZeros(Abs(y))
        mm == (x \div Pow2(ex)) * (y \div Pow2(ey))
        e  == ex + ey - FracBits
    IN  IF e >= 0 THEN RoundRat(mm * Pow2(e), 1) ELSE RoundRat(mm, Pow2(-e))

\* x / y, y # 0 (Python raises ZeroDivisionError on y = 0)
FDiv(x, y) ==
    LET ex == TrailingZeros(Abs(x))
        ey == TrailingZeros(Abs(y))
        mx == Sign(y) * (x \div Pow2(ex))
        my == Abs(y) \div Pow2(ey)
        e  == ex - ey + FracBits
    IN  IF e >= 0 THEN RoundRat(mx * Pow2(e), my) ELSE RoundRat(mx, my * Pow2(-e))

\* 1.0
One == FromInt(1)

\* STEP = 1.0 / 60.0
STEP == FDiv(FromInt(1), FromInt(60))

(***************************************************************************)
(* Material, Rod, HeatSource: the objects and their methods.               *)
(***************************************************************************)

\* Material(density, specificHeat, expansionCoefficient)
Material(density, specificHeat, expansionCoefficient) ==
    [density |-> density, specificHeat |-> specificHeat,
     expansionCoefficient |-> expansionCoefficient]

molarToMassHeatCapacity(molarCapacity, molarMass) == FDiv(molarCapacity, molarMass)

\* Faulty variant of setTemperature: the mass is left out of the product.
Rod_setTemperature_NoMass(self, kelvin) ==
    [self EXCEPT !.heat = FMul(self.material.specificHeat, kelvin)]

\* Rod.setTemperature(kelvin)
Rod_setTemperature(self, kelvin) ==
    [self EXCEPT !.heat = FMul(FMul(self.material.specificHeat, kelvin), self.mass)]

\* Rod.temperature()
Rod_temperature(self) == FDiv(FDiv(self.heat, self.material.specificHeat), self.mass)

\* Rod.expansionTemperature(): temperature() - 273.0 - 20.0
Rod_expansionTemperature(self) ==
    FSub(FSub(Rod_temperature(self), FromInt(273)), FromInt(20))

\* Rod.volumeExpansion()
Rod_volumeExpansion(self) ==
    FAdd(One, FMul(FMul(self.material.expansionCoefficient, FromInt(3)),
                   Rod_expansionTemperature(self)))

\* Rod.length()
Rod_length(self) == FMul(self.STPLength, Rod_volumeExpansion(self))

\* Rod.diameter()
Rod_diameter(self) == FMul(self.STPDiameter, Rod_volumeExpansion(self))

\* The data row Rod.tick prints (line 113), as the values it formats.
Row(self, elapsed) ==
    [kind |-> "row", heat |-> self.heat,
     lengthExpansion |-> FSub(Rod_length(self), self.STPLength),
     diameterExpansion |-> FSub(Rod_diameter(self), self.STPDiameter),
     temperature |-> FSub(Rod_temperature(self), FromInt(273)),
     elapsed |-> elapsed]

Header == [kind |-> "header"]

Rule == [kind |-> "rule"]

\* Faulty variant of modifyHeat: `=` written for `+=`.
Rod_modifyHeat_Assigns(self, heatDelta) == [self EXCEPT !.heat = heatDelta]

\* Rod.modifyHeat(heatDelta)
Rod_modifyHeat(self, heatDelta) == [self EXCEPT !.heat = FAdd(self.heat, heatDelta)]

\* Rod(material, length, diameter), constructed when the clock reads t.
Rod_init(material, length, diameter, t) ==
    Rod_setTemperature(
        [STPLength |-> length, STPDiameter |-> diameter,
         mass |-> FMul(FMul(length, diameter), material.density),
         material |-> material, heat |-> 0, lastPrint |-> t, printed |-> FALSE],
        FromInt(273 + 20))

\* Faulty variant of Rod.tick: the report clock is reset to the current time.
Rod_tick_ResetToNow(self, delta, t) ==
    LET elapsed == FSub(t, self.lastPrint)
        r1 == [self EXCEPT !.printed = TRUE]
    IN  [rod   |-> IF elapsed >= One THEN [r1 EXCEPT !.lastPrint = t] ELSE r1,
         lines |-> (IF self.printed THEN <<>> ELSE <<Header, Rule>>)
                   \o (IF elapsed >= One THEN <<Row(self, elapsed)>> ELSE <<>>)]

\* Faulty variant of Rod.tick: the heat is stored back from the temperature
\* that was computed for the row.
Rod_tick_StoresTemperature(self, delta, t) ==
    LET elapsed == FSub(t, self.lastPrint)
        r1 == [Rod_setTemperature(self, Rod_temperature(self)) EXCEPT !.printed = TRUE]
    IN  [rod   |-> IF elapsed >= One
                   THEN [r1 EXCEPT !.lastPrint = FAdd(self.lastPrint, One)]
                   ELSE r1,
         lines |-> (IF self.printed THEN <<>> ELSE <<Header, Rule>>)
                   \o (IF elapsed >= One THEN <<Row(self, elapsed)>> ELSE <<>>)]

\* Rod.tick(delta) when the clock reads t: the Rod afterwards and the lines
\* printed.
Rod_tick(self, delta, t) ==
    LET elapsed == FSub(t, self.lastPrint)
        r1 == [self EXCEPT !.printed = TRUE]
    IN  [rod   |-> IF elapsed >= One
                   THEN [r1 EXCEPT !.lastPrint = FAdd(self.lastPrint, One)]
                   ELSE r1,
         lines |-> (IF self.printed THEN <<>> ELSE <<Header, Rule>>)
                   \o (IF elapsed >= One THEN <<Row(self, elapsed)>> ELSE <<>>)]

\* HeatSource(power): no target attribute until setTarget is called.
HeatSource_init(power) == [power |-> power, on |-> FALSE, target |-> "unset"]

\* Faulty variant of HeatSource.tick: the power is injected, not delta * power.
HeatSource_tick_NoDelta(self, r, delta) ==
    IF self.target \in {"unset", "None"} THEN [rod |-> r, error |-> "AttributeError"]
    ELSE [rod |-> Rod_modifyHeat(r, self.power), error |-> "none"]

\* HeatSource.tick(delta) with r the Rod: the Rod afterwards and the error raised.
\* Reading self.target raises AttributeError while the attribute is unset; the
\* guard's branch is `pass`, so control reaches modifyHeat whatever the guard
\* found, and None has no modifyHeat.
HeatSource_tick(self, r, delta) ==
    IF self.target = "unset" THEN [rod |-> r, error |-> "AttributeError"]
    ELSE IF self.target = "None" THEN [rod |-> r, error |-> "AttributeError"]
    ELSE [rod |-> Rod_modifyHeat(r, FMul(delta, self.power)), error |-> "none"]

(***************************************************************************)
(* Bounds and the inputs drawn from them.                                  *)
(***************************************************************************)
\* Simulation.objects holds at most this many objects.
MaxObjects == 2
\* Simulation.run() is followed for this many iterations of its loop.
MaxIter == 4
\* The clock moves on its own (an object's tick takes time, a sleep returns
\* late) at most this many times.
MaxElapse == 2
\* Calls made on a Rod through its interface.
MaxCalls == 3

\* The program's own material and rod (lines 137-140), and a second one.
iron == Material(Lit(7874, 1000),
                 molarToMassHeatCapacity(Lit(251, 10), Lit(55845, 1000000)),
                 Lit(118, 10000000))

alloy == Material(Lit(125, 100), FromInt(3), Lit(1, 100))

RodArgs == {<<iron, FromInt(1), Lit(5, 100)>>, <<alloy, FromInt(1), FromInt(1)>>}

Powers == {FromInt(100), FromInt(512)}

\* Time the clock may move on its own: less than a step, a second.
Durations == {STEP \div 2, One}

HeatDeltas == {Lit(1, 10), FromInt(1), FromInt(100), FromInt(1000)}

Kelvins == {FromInt(1), FromInt(5), FromInt(100), FromInt(293), FromInt(300)}

(***************************************************************************)
(* The state.                                                              *)
(***************************************************************************)
VARIABLES
    clock,      \* what time.time() returns now
    objects,    \* Simulation.objects
    heater,     \* the HeatSource: power, on, target
    rod,        \* the Rod: STPLength, STPDiameter, mass, material, heat,
                \* lastPrint, printed
    out,        \* lines printed so far, by kind
    pc,         \* where the program is: "setup", then inside Simulation.run()
    now, prev, delta,   \* the locals of Simulation.run()
    idx,        \* Simulation.tick: the position of its for loop in objects
    error,      \* the exception that ended the program, "none" while it runs
    last,       \* observer: the method call made last, with the state before it
    prior,      \* observer: the call before that
    obs         \* observer: what Simulation.run() has done so far

vars == <<clock, objects, heater, rod, out, pc, now, prev, delta, idx, error,
          last, prior, obs>>

ObjectIds == {"heater", "rod"}

Call(op, arg, raised) ==
    [op |-> op, arg |-> arg, rod |-> rod, heater |-> heater, clock |-> clock,
     out |-> out, raised |-> raised]

\* out after print(line) for each of lines: the lines printed so far, counted
\* by kind, and the values of the last data row.
Printed(lines) ==
    LET Count(k) == Cardinality({i \in DOMAIN lines : lines[i].kind = k})
    IN  [header |-> out.header + Count("header"),
         rule   |-> out.rule + Count("rule"),
         row    |-> out.row + Count("row"),
         lastRow |-> IF Count("row") > 0 THEN lines[Len(lines)] ELSE out.lastRow]

\* The state after lines 136-141: the objects are constructed, nothing is wired.
Init ==
    /\ clock = FromInt(1)
    /\ objects = <<>>
    /\ heater = HeatSource_init(FromInt(100))
    /\ \E a \in RodArgs : rod = Rod_init(a[1], a[2], a[3], clock)
    /\ out = [header |-> 0, rule |-> 0, row |-> 0, lastRow |-> Header]
    /\ pc = "setup"
    /\ now = 0 /\ prev = 0 /\ delta = 0 /\ idx = 0
    /\ error = "none"
    /\ last = Call("Rod.__init__", FromInt(273 + 20), FALSE)
    /\ prior = last
    /\ obs = [iter |-> 0, start |-> 0, deltaSum |-> 0, tickAt |-> 0,
              prevTickAt |-> 0, calls |-> <<>>, elapses |-> 0,
              heat0 |-> 0, injected |-> 0, exact |-> TRUE, allOn |-> TRUE, ncalls |-> 0]

(***************************************************************************)
(* Setup: the calls a program makes before run().                          *)
(***************************************************************************)
\* Simulation.addObject(obj)
addObject(obj) ==
    /\ pc = "setup"
    /\ Len(objects) < MaxObjects
    /\ objects' = Append(objects, obj)
    /\ UNCHANGED <<clock, heater, rod, out, pc, now, prev, delta, idx, error,
                   last, prior, obs>>

\* HeatSource.setTarget(obj)
setTarget(obj) ==
    /\ pc = "setup"
    /\ heater' = [heater EXCEPT !.target = obj]
    /\ UNCHANGED <<clock, objects, rod, out, pc, now, prev, delta, idx, error,
                   last, prior, obs>>

\* HeatSource.setPower(power)
setPower(power) ==
    /\ pc = "setup"
    /\ heater' = [heater EXCEPT !.power = power]
    /\ UNCHANGED <<clock, objects, rod, out, pc, now, prev, delta, idx, error,
                   last, prior, obs>>

\* HeatSource.turnOn()
turnOn ==
    /\ pc = "setup"
    /\ heater' = [heater EXCEPT !.on = TRUE]
    /\ UNCHANGED <<clock, objects, rod, out, pc, now, prev, delta, idx, error,
                   last, prior, obs>>

\* HeatSource.turnOff()
turnOff ==
    /\ pc = "setup"
    /\ heater' = [heater EXCEPT !.on = FALSE]
    /\ UNCHANGED <<clock, objects, rod, out, pc, now, prev, delta, idx, error,
                   last, prior, obs>>

\* Whether heat + delta * power is computed without rounding: the product and
\* the sum are both floats.
ExactTick(h, r, d) ==
    /\ FMul(d, h.power) * Pow2(FracBits) = d * h.power
    /\ Representable(r.heat + FMul(d, h.power))

(***************************************************************************)
(* Simulation.run() and what it calls.                                     *)
(***************************************************************************)
\* The clock moves by d on its own: while the objects tick, or because sleep()
\* returns late.  Samples stay below 2^MantBits units (the sleeps to come
\* counted in), where floats are spaced one unit apart: the samples of
\* time.time() share one binade, so sums and differences of them are exact.
Elapse(d) ==
    /\ pc \in {"tick", "sample"}
    /\ d > 0
    /\ obs.elapses < MaxElapse
    /\ clock + d + MaxIter * STEP < Pow2(MantBits)
    /\ clock' = clock + d
    /\ obs' = [obs EXCEPT !.elapses = @ + 1]
    /\ UNCHANGED <<objects, heater, rod, out, pc, now, prev, delta, idx, error,
                   last, prior>>

\* run(), lines 20-21
run ==
    /\ pc = "setup"
    /\ now' = clock
    /\ prev' = clock
    /\ pc' = "loop"
    /\ obs' = [obs EXCEPT !.start = clock, !.heat0 = rod.heat]
    /\ UNCHANGED <<clock, objects, heater, rod, out, delta, idx, error, last, prior>>

\* run(), lines 24-25: delta = now - prev, and Simulation.tick(delta) is entered
LoopTop ==
    /\ pc = "loop"
    /\ obs.iter < MaxIter
    /\ delta' = FSub(now, prev)
    /\ idx' = 1
    /\ pc' = "tick"
    /\ obs' = [obs EXCEPT !.iter = @ + 1, !.deltaSum = @ + delta',
                          !.prevTickAt = obs.tickAt, !.tickAt = clock,
                          !.calls = <<>>]
    /\ UNCHANGED <<clock, objects, heater, rod, out, now, prev, error, last, prior>>

\* Simulation.tick, lines 16-17: obj.tick(delta) for the next obj, a HeatSource
HeaterTick ==
    /\ pc = "tick"
    /\ idx <= Len(objects)
    /\ objects[idx] = "heater"
    /\ LET res == HeatSource_tick(heater, rod, delta)
       IN  /\ rod' = res.rod
           /\ error' = res.error
           /\ pc' = IF res.error = "none" THEN "tick" ELSE "raised"
           /\ last' = Call("HeatSource.tick", delta, res.error # "none")
           /\ obs' = [obs EXCEPT
                  !.calls = Append(@, <<"heater", delta>>),
                  !.injected = @ + delta * heater.power,
                  !.allOn = @ /\ heater.on /\ heater.target = "rod",
                  !.exact = @ /\ ExactTick(heater, rod, delta)]
    /\ idx' = idx + 1
    /\ prior' = last
    /\ UNCHANGED <<clock, objects, heater, out, now, prev, delta>>

\* Simulation.tick, lines 16-17: obj.tick(delta) for the next obj, a Rod
RodTick ==
    /\ pc = "tick"
    /\ idx <= Len(objects)
    /\ objects[idx] = "rod"
    /\ LET res == Rod_tick(rod, delta, clock)
       IN  /\ rod' = res.rod
           /\ out' = Printed(res.lines)
    /\ idx' = idx + 1
    /\ last' = Call("Rod.tick", delta, FALSE)
    /\ prior' = last
    /\ obs' = [obs EXCEPT !.calls = Append(@, <<"rod", delta>>)]
    /\ UNCHANGED <<clock, objects, heater, pc, now, prev, delta, error>>

\* run(), lines 26-27, once Simulation.tick has returned: sleep(STEP - delta)
\* moves the clock by the time slept
Sleep ==
    /\ pc = "tick"
    /\ idx > Len(objects)
    /\ clock' = IF delta < STEP THEN clock + FSub(STEP, delta) ELSE clock
    /\ pc' = "sample"
    /\ UNCHANGED <<objects, heater, rod, out, now, prev, delta, idx, error,
                   last, prior, obs>>

\* Faulty variant of lines 28-29: prev takes the timestamp sampled after the
\* sleep, so the time slept is in no delta.
Sample_PostSleep ==
    /\ pc = "sample"
    /\ prev' = clock
    /\ now' = clock
    /\ pc' = "loop"
    /\ UNCHANGED <<clock, objects, heater, rod, out, delta, idx, error,
                   last, prior, obs>>

\* run(), lines 28-29
Sample ==
    /\ pc = "sample"
    /\ prev' = now
    /\ now' = clock
    /\ pc' = "loop"
    /\ UNCHANGED <<clock, objects, heater, rod, out, delta, idx, error,
                   last, prior, obs>>

Next ==
    \/ \E obj \in ObjectIds : addObject(obj)
    \/ \E obj \in {"None", "rod"} : setTarget(obj)
    \/ \E power \in Powers : setPower(power)
    \/ turnOn
    \/ turnOff
    \/ \E d \in Durations : Elapse(d)
    \/ run
    \/ LoopTop
    \/ HeaterTick
    \/ RodTick
    \/ Sleep
    \/ Sample

Spec == Init /\ [][Next]_vars

(***************************************************************************)
(* A Rod used through its interface: modifyHeat and setTemperature called  *)
(* in any order on a freshly constructed Rod.                              *)
(***************************************************************************)
\* Rod.modifyHeat(heatDelta)
modifyHeat(heatDelta) ==
    /\ obs.ncalls < MaxCalls
    /\ rod' = Rod_modifyHeat(rod, heatDelta)
    /\ last' = Call("Rod.modifyHeat", heatDelta, FALSE)
    /\ prior' = last
    /\ obs' = [obs EXCEPT !.ncalls = @ + 1]
    /\ UNCHANGED <<clock, objects, heater, out, pc, now, prev, delta, idx, error>>

\* Rod.setTemperature(kelvin)
setTemperature(kelvin) ==
    /\ obs.ncalls < MaxCalls
    /\ rod' = Rod_setTemperature(rod, kelvin)
    /\ last' = Call("Rod.setTemperature", kelvin, FALSE)
    /\ prior' = last
    /\ obs' = [obs EXCEPT !.ncalls = @ + 1]
    /\ UNCHANGED <<clock, objects, heater, out, pc, now, prev, delta, idx, error>>

NextRod ==
    \/ \E x \in HeatDeltas : modifyHeat(x) \/ modifyHeat(-x)
    \/ \E k \in Kelvins : setTemperature(k)

SpecRod == Init /\ [][NextRod]_vars

(***************************************************************************)
(* Properties.  `last` and `prior` hold the state before the last two      *)
(* method calls; differences of floats are taken exactly, in units.        *)
(***************************************************************************)
HeaterTicked == last.op = "HeatSource.tick"

\* The objects Simulation.tick was to call, with the delta it was given.
Expected == [i \in 1..Len(objects) |-> <<objects[i], delta>>]

\* A call of Simulation.tick has ended: it returned or an exception left it.
TickEnded ==
    \/ pc \in {"sample", "raised"}
    \/ pc = "tick" /\ idx > Len(objects)
    \/ pc = "loop" /\ obs.iter >= 1

\* C1: a HeatSource that is off never changes its target's heat, whatever
\* tick calls are made and whatever their delta.
C1_OffNeverHeats ==
    (HeaterTicked /\ ~last.heater.on /\ last.heater.target = "rod")
        => rod.heat = last.rod.heat

\* C2: tick on a HeatSource whose target was never set does nothing and raises
\* no error, on or off.
C2_UnsetTargetNoError ==
    (HeaterTicked /\ last.heater.target = "unset")
        => (~last.raised /\ error = "none" /\ rod = last.rod)

\* C3 as stated: a tick of a HeatSource that is on adds exactly P * delta to the
\* target's heat and changes nothing else; since run() began with the source on
\* throughout, the heat has risen by exactly the sum of the P * delta.
C3_ExactIncrease ==
    /\ (HeaterTicked /\ last.heater.on /\ last.heater.target = "rod")
          => /\ (rod.heat - last.rod.heat) * Pow2(FracBits) = last.arg * last.heater.power
             /\ rod = [last.rod EXCEPT !.heat = rod.heat]
    /\ (obs.allOn /\ error = "none" /\ pc # "setup")
          => (rod.heat - obs.heat0) * Pow2(FracBits) = obs.injected

\* C3 amended: the tick leaves heat (+) (delta (x) P), product and sum each
\* rounded to the nearest float, and changes nothing else of the Rod; the
\* increase is exactly P * delta when neither operation rounds, and exactly the
\* sum of the P * delta over all the ticks when none of them rounded.
C3_IncreaseRounded ==
    /\ (HeaterTicked /\ last.heater.on /\ last.heater.target = "rod")
          => /\ rod = [last.rod EXCEPT !.heat =
                          FAdd(last.rod.heat, FMul(last.arg, last.heater.power))]
             /\ ExactTick(last.heater, last.rod, last.arg)
                   => (rod.heat - last.rod.heat) * Pow2(FracBits)
                          = last.arg * last.heater.power
    /\ (obs.allOn /\ obs.exact /\ error = "none" /\ pc # "setup")
          => (rod.heat - obs.heat0) * Pow2(FracBits) = obs.injected

\* C3's case: the source is on, several ticks have passed without rounding and
\* the last one raised the heat.
C3_Witness ==
    /\ HeaterTicked /\ last.heater.on /\ last.heater.target = "rod"
    /\ obs.allOn /\ obs.exact /\ obs.iter >= 3
    /\ rod.heat > last.rod.heat
    /\ last.rod.heat > obs.heat0

\* C4: every call of Simulation.tick(delta) calls tick(delta) once on each
\* registered object, in the order of registration.
C4_EachObjectOnce == TickEnded => obs.calls = Expected

\* C4 while no tick raises: the calls made so far are the first of the expected
\* ones, and all of them once Simulation.tick has returned.
C4_InOrderUnlessRaised ==
    /\ pc = "tick" => obs.calls = SubSeq(Expected, 1, idx - 1)
    /\ (TickEnded /\ error = "none") => obs.calls = Expected

\* C5: on a clock that only sleep() moves, two consecutive iterations of run()
\* are at least 1/60 s apart.
C5_Pacing ==
    (obs.elapses = 0 /\ obs.iter >= 2) => obs.tickAt - obs.prevTickAt >= STEP

\* C6: Rod.tick prints one data row and advances lastPrint by exactly 1.0 when
\* at least 1.0 has elapsed since lastPrint, and otherwise prints no row and
\* leaves lastPrint alone.
C6_ReportCadence ==
    last.op = "Rod.tick" =>
        IF last.clock - last.rod.lastPrint >= One
        THEN out.row = last.out.row + 1 /\ rod.lastPrint = last.rod.lastPrint + One
        ELSE out.row = last.out.row /\ rod.lastPrint = last.rod.lastPrint

\* C6's case: a row is printed when more than 1.0 has elapsed.
C6_Witness ==
    /\ last.op = "Rod.tick"
    /\ last.clock - last.rod.lastPrint > One
    /\ out.row = last.out.row + 1
    /\ rod.lastPrint < last.clock

\* C7 as stated: modifyHeat(x) then modifyHeat(-x) leaves heat as it was.
C7_Invertible ==
    (last.op = "Rod.modifyHeat" /\ prior.op = "Rod.modifyHeat" /\ last.arg = -prior.arg)
        => rod.heat = prior.rod.heat

\* C7 amended: modifyHeat(x) then modifyHeat(-x) leaves heat within twice the
\* rounding error of the sum heat + x of its value before, hence equal to it
\* when that sum is a float.
C7_InvertibleUpToRounding ==
    (last.op = "Rod.modifyHeat" /\ prior.op = "Rod.modifyHeat" /\ last.arg = -prior.arg)
        => Abs(rod.heat - prior.rod.heat)
              <= 2 * Abs(last.rod.heat - (prior.rod.heat + prior.arg))

\* C7's case: x was added without rounding, changed the heat, and -x restored it.
C7_Witness ==
    /\ last.op = "Rod.modifyHeat" /\ prior.op = "Rod.modifyHeat"
    /\ last.arg = -prior.arg
    /\ last.rod.heat = prior.rod.heat + prior.arg
    /\ last.rod.heat # prior.rod.heat
    /\ rod.heat = prior.rod.heat

\* The four results of setTemperature(kelvin) then temperature() on Rod r are
\* all normal numbers: none is rounded to the spacing of the smallest floats.
NoUnderflow(r, kelvin) ==
    LET Normal(x) == Abs(x) >= Pow2(MantBits - 1)
        after == Rod_setTemperature(r, kelvin)
    IN  /\ Normal(FMul(r.material.specificHeat, kelvin))
        /\ Normal(after.heat)
        /\ Normal(FDiv(after.heat, r.material.specificHeat))
        /\ Normal(Rod_temperature(after))

\* The call that set the heat last was setTemperature, from __init__ or not.
TemperatureSet == last.op \in {"Rod.setTemperature", "Rod.__init__"}

\* C8 as stated: temperature() right after setTemperature(k) returns k, and
\* 293 K on a new Rod.
C8_RoundTrip == TemperatureSet => Rod_temperature(rod) = last.arg

\* C8 amended: temperature() right after setTemperature(k) returns k to within
\* 5 * 2^-MantBits of k (four roundings), when no result underflows.
C8_RoundTripWithinTolerance ==
    (TemperatureSet /\ NoUnderflow(last.rod, last.arg))
        => Abs(Rod_temperature(rod) - last.arg) * Pow2(MantBits) <= 5 * last.arg

\* C8's case: setTemperature(k) changed the heat and temperature() is close to
\* k and not k.
C8_Witness ==
    /\ last.op = "Rod.setTemperature"
    /\ NoUnderflow(last.rod, last.arg)
    /\ rod.heat # last.rod.heat
    /\ Rod_temperature(rod) # last.arg

\* C9: Rod.tick leaves heat, STPLength, STPDiameter, mass and material alone.
C9_RodTickFrame ==
    last.op = "Rod.tick" =>
        rod = [last.rod EXCEPT !.lastPrint = rod.lastPrint, !.printed = rod.printed]

\* C9's case: a Rod.tick that printed a row and moved lastPrint.
C9_Witness ==
    /\ last.op = "Rod.tick"
    /\ rod.lastPrint # last.rod.lastPrint
    /\ out.row > 0

\* The HeatSource is on, aimed at the Rod and registered once.
HeaterWired ==
    /\ heater.on /\ heater.target = "rod"
    /\ Cardinality({i \in DOMAIN objects : objects[i] = "heater"}) = 1

\* An iteration of run() has called Simulation.tick and it has returned.
IterationDone == pc = "sample" \/ (pc = "tick" /\ idx > Len(objects))

\* run() loses and repeats no time: the first delta is 0 and the deltas passed
\* so far add up to the sample of this iteration minus the first sample.
DeltasTelescope ==
    /\ (pc = "tick" /\ obs.iter = 1) => delta = 0
    /\ pc \in {"tick", "sample", "raised"} => obs.deltaSum = now - obs.start

\* C10 as stated: the deltas add up to the time elapsed on the clock, hence a
\* HeatSource that is on has injected exactly P times that time.
C10_NoTimeLost ==
    /\ DeltasTelescope
    /\ (IterationDone /\ HeaterWired)
          => (rod.heat - obs.heat0) * Pow2(FracBits) = heater.power * (now - obs.start)

\* C10 amended: the deltas add up to the time elapsed on the clock, and the
\* HeatSource has injected exactly P times that time when no tick rounded.
C10_NoTimeLostUpToRounding ==
    /\ DeltasTelescope
    /\ (IterationDone /\ HeaterWired /\ obs.exact)
          => (rod.heat - obs.heat0) * Pow2(FracBits) = heater.power * (now - obs.start)

\* C10's case: three iterations, the clock has moved by sleeps and on its own,
\* and the heat injected is P times the time elapsed.
C10_Witness ==
    /\ IterationDone /\ HeaterWired /\ obs.exact
    /\ obs.iter >= 3 /\ obs.elapses >= 1
    /\ now - obs.start > STEP
    /\ rod.heat > obs.heat0
=============================================================================
